---- MODULE Spec2Model ----
(***************************************************************************)
(* Session-revocation and step-up-authentication core of the SecureBank    *)
(* demo application: the Session Directory and Session Store               *)
(* (sessionStore.mjs), the Global Token Revocation endpoint and its bearer *)
(* authentication (universalLogout.mjs) and the MFA step-up gate of the    *)
(* wire-transfer routes (routes/wire-transfer.mjs).                        *)
(***************************************************************************)
EXTENDS Integers, Sequences, FiniteSets, TLC

VARIABLES
  userSessions,   \* sessionStore.mjs: Map normalized email -> Set of session ids
  sessions,       \* MemoryStore contents: session id -> session data
  rev,            \* the revocation request being handled, with its audit fields
  lastOp,         \* the last call of an exported Session Directory function
  call,           \* the destroyUserSessions call of that caller, with its audit fields
  now,            \* Date.now(), in milliseconds
  sess,           \* req.session of the browser session using /wire-transfer
  wt,             \* the last /wire-transfer request and what was answered
  audit,          \* audit of the step-up flow: clock advances, last step-up, passes
  tok,            \* the token handed to validateLogoutToken
  vres            \* what validateLogoutToken returned or threw

vars == <<userSessions, sessions, rev, lastOp, call, now, sess, wt, audit, tok, vres>>

-----------------------------------------------------------------------------
(* Bounds of the model *)

\* number of session ids the store can hold
MaxSessions == 2
\* login/logout steps that may interleave with one revocation request
MaxInterleave == 1
\* clock advances in the step-up specification
MaxTicks == 4

-----------------------------------------------------------------------------
(* JavaScript values *)

\* undefined, for string-valued properties
Absent == "<undefined>"

\* !v for a string-valued property
Falsy(v) == v = Absent \/ v = ""

\* a truthy value that is not a string, such as the number 42
NotAString == "<number>"

\* v.toLowerCase() throws TypeError: v.toLowerCase is not a function
ThrowsTypeError(v) == v = NotAString

\* a normalization that keeps the letter case
toLowerCaseKeepsCase(s) == s

\* String.prototype.toLowerCase over the strings of the model
toLowerCase(s) ==
  CASE s = "Ann@Bank.com" -> "ann@bank.com"
    [] s = "Bearer"       -> "bearer"
    [] s = "BEARER"       -> "bearer"
    [] s = "Basic"        -> "basic"
    [] OTHER              -> s

\* `${v}` in a template literal: undefined is written out as a word
TemplateString(v) == IF v = Absent THEN "undefined" ELSE v

\* Map.prototype.set
MapSet(m, k, v) == [x \in DOMAIN m \cup {k} |-> IF x = k THEN v ELSE m[x]]

\* Map.prototype.delete / the delete operator
MapDelete(m, k) == [x \in DOMAIN m \ {k} |-> m[x]]

EmptyMap == [x \in {} |-> {}]

-----------------------------------------------------------------------------
(* Values the model draws from *)

SidNames == <<"s1", "s2", "s3", "s4">>
SIDs == {SidNames[i] : i \in 1..MaxSessions}

\* the email argument of a Directory call: two casings of one identity, another
\* identity, the empty string, undefined and a value that is not a string
EmailInputs == {"Ann@Bank.com", "ann@bank.com", "bob@bank.com"}
EmailArgs == EmailInputs \cup {"", Absent, NotAString}

\* passport.user as the OIDC login leaves it in the session
UserAnn  == [present |-> TRUE, emails0 |-> "Ann@Bank.com", email |-> Absent,
             jsonEmail |-> Absent, preferred_username |-> "ann@bank.com",
             id |-> "u1", jsonSub |-> "u1"]
UserBob  == [present |-> TRUE, emails0 |-> Absent, email |-> "bob@bank.com",
             jsonEmail |-> Absent, preferred_username |-> Absent,
             id |-> "u2", jsonSub |-> Absent]
\* a principal whose first email-bearing field names another identity than a later one
UserMixed == [present |-> TRUE, emails0 |-> "bob@bank.com", email |-> "ann@bank.com",
              jsonEmail |-> Absent, preferred_username |-> Absent,
              id |-> Absent, jsonSub |-> "u1"]
\* a principal whose first email-bearing field is not a string
UserNumeric == [present |-> TRUE, emails0 |-> NotAString, email |-> "ann@bank.com",
                jsonEmail |-> Absent, preferred_username |-> Absent,
                id |-> "u1", jsonSub |-> Absent]
\* a session without passport.user (not logged in)
NoUser   == [present |-> FALSE, emails0 |-> Absent, email |-> Absent,
             jsonEmail |-> Absent, preferred_username |-> Absent,
             id |-> Absent, jsonSub |-> Absent]
Users == {UserAnn, UserBob, UserMixed, NoUser}

-----------------------------------------------------------------------------
(* Session Directory: sessionStore.mjs *)

\* a registerUserSession that stores a new Set holding only sessionId
registerOverwriting(us, email, sessionId) ==
  IF Falsy(email) \/ Falsy(sessionId) THEN us
  ELSE MapSet(us, toLowerCase(email), {sessionId})

\* registerUserSession(email, sessionId), as the new value of userSessions
registerUserSession(us, email, sessionId) ==
  IF Falsy(email) \/ Falsy(sessionId) THEN us
  ELSE IF ThrowsTypeError(email) THEN us   \* the exception comes before any change
  ELSE LET normalizedEmail == toLowerCase(email)
           withKey == IF normalizedEmail \in DOMAIN us THEN us
                      ELSE MapSet(us, normalizedEmail, {})
       IN  MapSet(withKey, normalizedEmail, withKey[normalizedEmail] \cup {sessionId})

\* an unregisterUserSession that leaves the emptied Set in the Map
unregisterWithoutPruning(us, email, sessionId) ==
  IF Falsy(email) \/ Falsy(sessionId) THEN us
  ELSE IF toLowerCase(email) \in DOMAIN us
       THEN MapSet(us, toLowerCase(email), us[toLowerCase(email)] \ {sessionId})
       ELSE us

\* an unregisterUserSession that deletes the identity's entry with the id
unregisterDroppingEntry(us, email, sessionId) ==
  IF Falsy(email) \/ Falsy(sessionId) THEN us
  ELSE IF toLowerCase(email) \in DOMAIN us /\ sessionId \in us[toLowerCase(email)]
       THEN MapDelete(us, toLowerCase(email))
       ELSE us

\* an unregisterUserSession that removes nothing
unregisterIgnored(us, email, sessionId) == us

\* a call of registerUserSession or unregisterUserSession ends in an exception:
\* email.toLowerCase() after the guard let a value pass that is not a string
DirectoryCallThrows(email, sessionId) ==
  ~(Falsy(email) \/ Falsy(sessionId)) /\ ThrowsTypeError(email)

\* unregisterUserSession(email, sessionId), as the new value of userSessions
unregisterUserSession(us, email, sessionId) ==
  IF Falsy(email) \/ Falsy(sessionId) THEN us
  ELSE IF ThrowsTypeError(email) THEN us   \* the exception comes before any change
  ELSE LET normalizedEmail == toLowerCase(email)
       IN  IF normalizedEmail \in DOMAIN us
           THEN LET removed == MapSet(us, normalizedEmail, us[normalizedEmail] \ {sessionId})
                IN  IF Cardinality(removed[normalizedEmail]) = 0
                    THEN MapDelete(removed, normalizedEmail)
                    ELSE removed
           ELSE us

-----------------------------------------------------------------------------
(* Session Store: the express-session MemoryStore created in sessionStore.mjs *)

\* store.destroy(sid, cb): the record is deleted before destroy returns; cb only logs
StoreDestroy(st, sid) == MapDelete(st, sid)

\* store.destroy for each id of a set
\* a store whose destroy drops every session it holds, not only the ones named
StoreDestroyAllClearing(st, sids) == EmptyMap

StoreDestroyAll(st, sids) == [x \in DOMAIN st \ sids |-> st[x]]

\* store.destroy of each of sids by a store that reports a failure for those of
\* failing: a session whose destroy failed is still stored
StoreDestroyFailing(st, sids, failing) == StoreDestroyAll(st, sids \ failing)

\* destroyedCount++ of a batch of destroy calls counting only the calls the store
\* confirmed
DestroyedCountConfirmed(sids, failing) == Cardinality(sids \ failing)

\* destroyedCount++ of a batch of destroy calls: the increment follows the call,
\* outside its callback, so a destroy the store failed is counted as well
DestroyedCount(sids, failing) == Cardinality(sids)

\* store.all(cb): the sessions are collected when all() is called and handed to cb later
StoreAll(st) == st

\* const userEmail = user.emails?.[0]?.value || user.email || user._json?.email
\*                   || user.preferred_username
userEmail(user) ==
  IF ~Falsy(user.emails0) THEN user.emails0
  ELSE IF ~Falsy(user.email) THEN user.email
  ELSE IF ~Falsy(user.jsonEmail) THEN user.jsonEmail
  ELSE user.preferred_username

\* a fallback scan that compares the stored email without lower-casing it
EmailMatchesExactly(sessionData, normalizedEmail) ==
  /\ sessionData.user.present
  /\ userEmail(sessionData.user) = normalizedEmail

\* the test of the fallback scan for one record of the enumeration
EmailMatches(sessionData, normalizedEmail) ==
  /\ sessionData.user.present
  /\ ~Falsy(userEmail(sessionData.user))
  /\ toLowerCase(userEmail(sessionData.user)) = normalizedEmail

\* the fallback scan throws at a record: userEmail is truthy and userEmail.toLowerCase
\* is not a function
RecordThrows(sessionData) ==
  /\ sessionData.user.present
  /\ ThrowsTypeError(userEmail(sessionData.user))

\* the loop of the fallback scan ends in an exception
ScanThrows(snapshot) == \E sid \in DOMAIN snapshot : RecordThrows(snapshot[sid])

\* a destroyUserSessions without Method 2
ScanByEmailSkipped(snapshot, normalizedEmail) == {}

\* the session ids the fallback scan destroys
ScanByEmail(snapshot, normalizedEmail) ==
  {sid \in DOMAIN snapshot : EmailMatches(snapshot[sid], normalizedEmail)}

\* Method 1 of destroyUserSessions: the ids it issues destroy calls for
\* a Method 1 that walks every entry of the Directory
DirectoryPassEveryone(us, normalizedEmail) == UNION {us[k] : k \in DOMAIN us}

DirectoryPass(us, normalizedEmail) ==
  IF normalizedEmail \in DOMAIN us THEN us[normalizedEmail] ELSE {}

\* a Method 1 that forgets userSessions.delete(normalizedEmail)
DirectoryKeptAfterPass(us, normalizedEmail) == us

\* userSessions.delete(normalizedEmail) at the end of Method 1
DirectoryAfterPass(us, normalizedEmail) ==
  IF normalizedEmail \in DOMAIN us THEN MapDelete(us, normalizedEmail) ELSE us

\* a test that compares user.id only
SubjectMatchesIdOnly(sessionData, subject) ==
  /\ sessionData.user.present
  /\ sessionData.user.id = subject

\* the test of destroyUserSessionsBySubject for one record of the enumeration
SubjectMatches(sessionData, subject) ==
  /\ sessionData.user.present
  /\ (sessionData.user.id = subject \/ sessionData.user.jsonSub = subject)

\* the session ids destroyUserSessionsBySubject destroys
ScanBySubject(snapshot, subject) ==
  {sid \in DOMAIN snapshot : SubjectMatches(snapshot[sid], subject)}

-----------------------------------------------------------------------------
(* Revocation Token Validator: universalLogout.mjs *)

\* the values universalLogoutAuth(orgUrl, revocationEndpoint) is built with
expectedIssuer == "https://org.okta.com"
revocationEndpoint == "https://bank.example/api/global-token-revocation"

\* clockTolerance: 30, in seconds
clockTolerance == 30

\* algorithms: ['RS256', 'RS384', 'RS512']
algorithms == {"RS256", "RS384", "RS512"}

\* the keys the JWKS endpoint publishes, by key id
JwksKeys == [kid \in {"k1", "k2"} |-> IF kid = "k1" THEN "key1" ELSE "key2"]

\* a result of the validator: the payload, or the error thrown
Accepted == [ok |-> TRUE, name |-> "", message |-> ""]
Thrown(name, message) == [ok |-> FALSE, name |-> name, message |-> message]

\* jwt.decode(token, { complete: true }) is not null: the string has the shape of a JWT
Decodes(token) == token.wellFormed

\* getSigningKey(header): the public key of header.kid, or the rejection
getSigningKey(header, clientReady) ==
  IF ~clientReady THEN Thrown("Error", "JWKS client not initialized")
  ELSE IF header.kid \notin DOMAIN JwksKeys
       THEN Thrown("SigningKeyNotFoundError", "Unable to find a signing key that matches")
       ELSE [ok |-> TRUE, name |-> "", message |-> JwksKeys[header.kid]]

\* Math.floor(Date.now() / 1000), the clock jwt.verify compares exp and nbf with
clockTimestamp(nowMs) == nowMs \div 1000

\* the signature check of jwt.verify: the signature was made by the private key
\* that belongs to signingKey
SignatureValid(token, signingKey) == token.signedBy = signingKey

\* the nbf check of jwt.verify under clockTolerance
NotYetActive(token, nowMs) ==
  token.hasNbf /\ token.nbf > clockTimestamp(nowMs) + clockTolerance

\* the exp check of jwt.verify under clockTolerance
Expired(token, nowMs) ==
  token.hasExp /\ clockTimestamp(nowMs) >= token.exp + clockTolerance

\* a jwt.verify called without the issuer option
jwtVerifyAnyIssuer(token, signingKey, issuer, audience, nowMs) ==
  IF token.alg \notin algorithms THEN Thrown("JsonWebTokenError", "invalid algorithm")
  ELSE IF ~SignatureValid(token, signingKey)
       THEN Thrown("JsonWebTokenError", "invalid signature")
  ELSE IF NotYetActive(token, nowMs) THEN Thrown("NotBeforeError", "jwt not active")
  ELSE IF Expired(token, nowMs) THEN Thrown("TokenExpiredError", "jwt expired")
  ELSE IF audience \notin token.aud
       THEN Thrown("JsonWebTokenError", "jwt audience invalid")
  ELSE Accepted

\* jwt.verify(token, signingKey, { algorithms, issuer, audience, clockTolerance }, cb)
jwtVerify(token, signingKey, issuer, audience, nowMs) ==
  IF token.alg \notin algorithms THEN Thrown("JsonWebTokenError", "invalid algorithm")
  ELSE IF ~SignatureValid(token, signingKey)
       THEN Thrown("JsonWebTokenError", "invalid signature")
  ELSE IF NotYetActive(token, nowMs) THEN Thrown("NotBeforeError", "jwt not active")
  ELSE IF Expired(token, nowMs) THEN Thrown("TokenExpiredError", "jwt expired")
  ELSE IF audience \notin token.aud
       THEN Thrown("JsonWebTokenError", "jwt audience invalid")
  ELSE IF token.iss # issuer THEN Thrown("JsonWebTokenError", "jwt issuer invalid")
  ELSE Accepted

\* decoded.header.typ !== 'global-token-revocation+jwt': the validator logs a
\* warning and goes on
TypWarns(token) == token.typ # "global-token-revocation+jwt"

\* a validateLogoutToken that refuses a token of another type
validateLogoutTokenTyped(token, audience, issuer, clientReady, nowMs) ==
  IF ~Decodes(token) THEN Thrown("Error", "Invalid token format")
  ELSE IF TypWarns(token) THEN Thrown("Error", "Unexpected token type")
  ELSE LET key == getSigningKey(token, clientReady)
       IN  IF ~key.ok THEN key
           ELSE jwtVerify(token, key.message, issuer, audience, nowMs)

\* validateLogoutToken(token, expectedAudience, expectedIssuer)
validateLogoutToken(token, audience, issuer, clientReady, nowMs) ==
  IF ~Decodes(token) THEN Thrown("Error", "Invalid token format")
  ELSE LET \* a typ other than 'global-token-revocation+jwt' is only logged
           key == getSigningKey(token, clientReady)
       IN  IF ~key.ok THEN key
           ELSE jwtVerify(token, key.message, issuer, audience, nowMs)

-----------------------------------------------------------------------------
(* Tokens, headers and bodies of the revocation requests of the model *)

\* Date.now() when the model starts, in milliseconds
NowStart == 1000 * 1000

GoodToken ==
  [wellFormed |-> TRUE, typ |-> "global-token-revocation+jwt", kid |-> "k1",
   alg |-> "RS256", signedBy |-> "key1", iss |-> expectedIssuer,
   aud |-> {revocationEndpoint}, hasExp |-> TRUE, exp |-> 1300,
   hasNbf |-> TRUE, nbf |-> 1000]

TokenNames == {"tGood", "tTyp", "tExpired", "tForged", "tKid", "tGarbage"}

\* the token a bearer string stands for
TokenTable ==
  [n \in TokenNames |->
     CASE n = "tGood"    -> GoodToken
       [] n = "tTyp"     -> [GoodToken EXCEPT !.typ = "JWT"]
       [] n = "tExpired" -> [GoodToken EXCEPT !.exp = 900, !.nbf = 600]
       [] n = "tForged"  -> [GoodToken EXCEPT !.signedBy = "attacker"]
       [] n = "tKid"     -> [GoodToken EXCEPT !.kid = "kX"]
       [] OTHER          -> [GoodToken EXCEPT !.wellFormed = FALSE]]

\* req.headers.authorization as a sequence of words and single spaces
NoHeader == [present |-> FALSE, value |-> <<>>]
Header(v) == [present |-> TRUE, value |-> v]
Headers ==
  {NoHeader, Header(<<>>), Header(<<"Bearer">>), Header(<<"Bearer", " ">>),
   Header(<<"Basic", " ", "tGood">>), Header(<<"Bearer", " ", " ", "tGood">>),
   Header(<<"BEARER", " ", "tTyp">>)}
    \cup {Header(<<"Bearer", " ", t>>) : t \in TokenNames \ {"tTyp"}}

\* String.prototype.split(' ') on a header value
RECURSIVE SplitFrom(_, _, _)
SplitFrom(s, i, cur) ==
  IF i > Len(s) THEN <<cur>>
  ELSE IF s[i] = " " THEN <<cur>> \o SplitFrom(s, i + 1, <<>>)
       ELSE SplitFrom(s, i + 1, Append(cur, s[i]))
split(s) == SplitFrom(s, 1, <<>>)

\* the token a word of the header denotes
TokenOf(word) ==
  IF Len(word) = 1 /\ word[1] \in TokenNames THEN TokenTable[word[1]]
  ELSE TokenTable["tGarbage"]

\* req.body: undefined, or an object whose sub_id is undefined, a non-object or an object
SubId(format, email, iss, sub) ==
  [isObject |-> TRUE, format |-> format, email |-> email, iss |-> iss, sub |-> sub]
NoSubId == [isObject |-> FALSE, format |-> Absent, email |-> Absent, iss |-> Absent,
            sub |-> Absent]
Body(subId) == [present |-> TRUE, hasSubId |-> TRUE, sub_id |-> subId]
NoBody == [present |-> FALSE, hasSubId |-> FALSE, sub_id |-> NoSubId]
EmptyBody == [present |-> TRUE, hasSubId |-> FALSE, sub_id |-> NoSubId]
Bodies ==
  {NoBody, EmptyBody, Body(NoSubId),
   Body(SubId("email", "Ann@Bank.com", Absent, Absent)),
   Body(SubId("email", "bob@bank.com", Absent, Absent)),
   Body(SubId("email", "", Absent, Absent)),
   Body(SubId("email", NotAString, Absent, Absent)),
   Body(SubId("email", Absent, Absent, Absent)),
   Body(SubId("iss_sub", Absent, expectedIssuer, "u1")),
   Body(SubId("iss_sub", Absent, expectedIssuer, "")),
   Body(SubId("iss_sub", Absent, Absent, "u1")),
   Body(SubId("saml", Absent, Absent, Absent)),
   Body(SubId(Absent, "Ann@Bank.com", Absent, Absent))}

\* extractUserIdentifier(subId): null, or the identifier
NullIdentifier == [ok |-> FALSE, type |-> Absent, email |-> Absent, issuer |-> Absent,
                   subject |-> Absent]
\* an extractUserIdentifier without the checks for empty members
extractUserIdentifierUnchecked(subId) ==
  IF ~subId.isObject THEN NullIdentifier
  ELSE CASE subId.format = "email" ->
              [ok |-> TRUE, type |-> "email", email |-> subId.email,
               issuer |-> Absent, subject |-> Absent]
         [] subId.format = "iss_sub" ->
              [ok |-> TRUE, type |-> "iss_sub", email |-> Absent,
               issuer |-> subId.iss, subject |-> subId.sub]
         [] OTHER -> NullIdentifier

\* an extractUserIdentifier whose subject is qualified by the issuer
extractUserIdentifierQualified(subId) ==
  IF ~subId.isObject THEN NullIdentifier
  ELSE CASE subId.format = "email" ->
              IF Falsy(subId.email) THEN NullIdentifier
              ELSE [ok |-> TRUE, type |-> "email", email |-> subId.email,
                    issuer |-> Absent, subject |-> Absent]
         [] subId.format = "iss_sub" ->
              IF Falsy(subId.iss) \/ Falsy(subId.sub) THEN NullIdentifier
              ELSE [ok |-> TRUE, type |-> "iss_sub", email |-> Absent,
                    issuer |-> subId.iss, subject |-> subId.iss \o "|" \o subId.sub]
         [] OTHER -> NullIdentifier

extractUserIdentifier(subId) ==
  IF ~subId.isObject THEN NullIdentifier
  ELSE CASE subId.format = "email" ->
              IF Falsy(subId.email) THEN NullIdentifier
              ELSE [ok |-> TRUE, type |-> "email", email |-> subId.email,
                    issuer |-> Absent, subject |-> Absent]
         [] subId.format = "iss_sub" ->
              IF Falsy(subId.iss) \/ Falsy(subId.sub) THEN NullIdentifier
              ELSE [ok |-> TRUE, type |-> "iss_sub", email |-> Absent,
                    issuer |-> subId.iss, subject |-> subId.sub]
         [] OTHER -> NullIdentifier

-----------------------------------------------------------------------------
(* Revocation endpoint: universalLogoutAuth and POST /global-token-revocation *)

\* a request that has not arrived; the fields after responses are the audit trail
NoRequest ==
  [pc |-> "idle", authorization |-> NoHeader, token |-> "", logoutToken |-> FALSE,
   body |-> NoBody, identifier |-> NullIdentifier, snapshot |-> EmptyMap,
   destroyedCount |-> 0, status |-> 0, error |-> "", error_description |-> "",
   responses |-> 0,
   us0 |-> EmptyMap, st0 |-> EmptyMap, dirDestroyed |-> {}, scanDestroyed |-> {},
   allCalls |-> 0, logins |-> {}, envSteps |-> 0, storeFailed |-> FALSE,
   destroyFailed |-> {}]

\* res.status(code).json({ error, error_description }) / res.sendStatus(code)
Respond(r, code, error, description) ==
  [r EXCEPT !.pc = "done", !.status = code, !.error = error,
            !.error_description = description, !.responses = @ + 1]

\* scheme.toLowerCase() of a word of the header
LowerWord(word) == [i \in 1..Len(word) |-> toLowerCase(word[i])]

\* const [scheme, token] = authHeader.split(' '); the header is refused when
\* scheme.toLowerCase() !== 'bearer' || !token
SchemeRefused(value) ==
  LET parts == split(value)
  IN  LowerWord(parts[1]) # <<"bearer">> \/ Len(parts) < 2 \/ parts[2] = <<>>

\* the 401 body of the catch block for the error the validator threw
AuthFailureDescription(err) ==
  IF err.name = "TokenExpiredError" THEN "Token has expired"
  ELSE IF err.name = "JsonWebTokenError" THEN "Invalid token: " \o err.message
  ELSE "Token validation failed"

\* an 'if (destroyedCount === 0)' branch that answers 404, as the comment considers
RevocationStatusNotFound(destroyedCount) == IF destroyedCount = 0 THEN 404 ELSE 204

\* the status after resolution: res.sendStatus(204) in both branches of
\* 'if (destroyedCount === 0)'
RevocationStatus(destroyedCount) == IF destroyedCount = 0 THEN 204 ELSE 204

\* a middleware that calls next() from the catch block as well
CallsNextAlways(result) == TRUE

\* next() is called only after validateLogoutToken resolved
CallsNext(result) == result.ok

\* where next() leads: the route is mounted behind the middleware
AfterAuth == "handler"

\* the middleware up to its first suspension (await getSigningKey)
RevokeArrive(h) ==
  /\ rev.pc = "idle"
  /\ LET r0 == [NoRequest EXCEPT !.authorization = h, !.us0 = userSessions,
                                 !.st0 = sessions]
     IN  IF ~h.present \/ h.value = <<>>
         THEN rev' = Respond(r0, 401, "unauthorized", "Missing authorization header")
         ELSE IF SchemeRefused(h.value)
         THEN rev' = Respond(r0, 401, "unauthorized",
                             "Invalid authorization scheme. Expected: Bearer {token}")
         ELSE LET word == split(h.value)[2]
                  name == IF Len(word) = 1 /\ word[1] \in TokenNames
                          THEN word[1] ELSE "tGarbage"
                  r1 == [r0 EXCEPT !.token = name]
              IN  IF ~Decodes(TokenOf(word))
                  THEN rev' = Respond(r1, 401, "unauthorized",
                         AuthFailureDescription(
                           validateLogoutToken(TokenOf(word), revocationEndpoint,
                                               expectedIssuer, TRUE, now)))
                  ELSE rev' = [r1 EXCEPT !.pc = "awaitKey"]
  /\ UNCHANGED <<userSessions, sessions, lastOp, call, now, sess, wt, audit, tok, vres>>

\* the key arrives: jwt.verify, then next() or the catch block
AuthResume ==
  /\ rev.pc = "awaitKey"
  /\ LET result == validateLogoutToken(TokenTable[rev.token], revocationEndpoint,
                                       expectedIssuer, TRUE, now)
     IN  IF CallsNext(result)
         THEN rev' = [rev EXCEPT !.pc = AfterAuth, !.logoutToken = TRUE]
         ELSE rev' = Respond(rev, 401, "unauthorized", AuthFailureDescription(result))
  /\ UNCHANGED <<userSessions, sessions, lastOp, call, now, sess, wt, audit, tok, vres>>

\* the route handler up to its first suspension: the body checks, then for the
\* email format the synchronous part of destroyUserSessions (Method 1 and the
\* call of store.all), for iss_sub the await import of destroyUserSessionsBySubject.
\* failing are the session ids whose destroy the store reports as failed
RevokeHandleStore(body, failing) ==
  /\ rev.pc = "handler"
  /\ failing \subseteq
       (LET id == extractUserIdentifier(body.sub_id)
        IN  IF body.present /\ body.hasSubId /\ id.ok /\ id.type = "email"
               /\ ~Falsy(id.email) /\ ~ThrowsTypeError(id.email)
            THEN DirectoryPass(userSessions, toLowerCase(id.email))
            ELSE {})
  /\ LET r0 == [rev EXCEPT !.body = body]
         id == extractUserIdentifier(body.sub_id)
     IN  IF ~body.present
         THEN /\ rev' = Respond(r0, 400, "invalid_request", "Request body is required")
              /\ UNCHANGED <<userSessions, sessions>>
         ELSE IF ~body.hasSubId
         THEN /\ rev' = Respond(r0, 400, "invalid_request", "sub_id is required")
              /\ UNCHANGED <<userSessions, sessions>>
         ELSE IF ~id.ok
         THEN /\ rev' = Respond(r0, 400, "invalid_request",
                          "Unrecognized subject identifier format: "
                            \o TemplateString(body.sub_id.format)
                            \o ". Supported formats: email, iss_sub")
              /\ UNCHANGED <<userSessions, sessions>>
         ELSE IF id.type = "email" /\ Falsy(id.email)
         THEN \* destroyUserSessions: if (!email) return 0
              /\ rev' = Respond([r0 EXCEPT !.identifier = id], RevocationStatus(0), "", "")
              /\ UNCHANGED <<userSessions, sessions>>
         ELSE IF id.type = "email" /\ ThrowsTypeError(id.email)
         THEN \* email.toLowerCase() throws in destroyUserSessions; the await rejects
              \* and the catch block answers
              /\ rev' = Respond([r0 EXCEPT !.identifier = id], 422, "unprocessable_entity",
                                "Unable to revoke user sessions")
              /\ UNCHANGED <<userSessions, sessions>>
         ELSE IF id.type = "email"
         THEN LET normalizedEmail == toLowerCase(id.email)
                  sessionIds == DirectoryPass(userSessions, normalizedEmail)
                  afterPass == StoreDestroyFailing(sessions, sessionIds, failing)
              IN  /\ sessions' = afterPass
                  /\ userSessions' = DirectoryAfterPass(userSessions, normalizedEmail)
                  /\ rev' = [r0 EXCEPT !.pc = "awaitAll", !.identifier = id,
                                       !.destroyedCount = DestroyedCount(sessionIds, failing),
                                       !.dirDestroyed = sessionIds,
                                       !.destroyFailed = failing,
                                       !.snapshot = StoreAll(afterPass),
                                       !.allCalls = @ + 1]
         ELSE /\ rev' = [r0 EXCEPT !.pc = "awaitImport", !.identifier = id]
              /\ UNCHANGED <<userSessions, sessions>>
  /\ UNCHANGED <<lastOp, call, now, sess, wt, audit, tok, vres>>

\* the route handler over the MemoryStore, whose destroy never fails
RevokeHandle(body) == RevokeHandleStore(body, {})

\* destroyUserSessionsBySubject after its await import: the call of store.all
SubjectScanStart ==
  /\ rev.pc = "awaitImport"
  /\ rev' = [rev EXCEPT !.pc = "awaitAll", !.snapshot = StoreAll(sessions),
                        !.allCalls = @ + 1]
  /\ UNCHANGED <<userSessions, sessions, lastOp, call, now, sess, wt, audit, tok, vres>>

\* the callback of store.all: the scan, resolve(destroyedCount), and the
\* handler's res.sendStatus(204). An exception of the loop leaves the callback,
\* which the store runs from a timer: the promise is never settled, the handler
\* never resumes, and the sessions enumerated before the record are destroyed.
\* failing are the session ids whose destroy the store reports as failed
ScanCallbackStore(failing) ==
  /\ rev.pc = "awaitAll"
  /\ LET matched == IF rev.identifier.type = "email"
                    THEN ScanByEmail(rev.snapshot, toLowerCase(rev.identifier.email))
                    ELSE ScanBySubject(rev.snapshot, rev.identifier.subject)
         count == rev.destroyedCount + DestroyedCount(matched, failing)
     IN  IF rev.identifier.type = "email" /\ ScanThrows(rev.snapshot)
         THEN \E before \in SUBSET matched :
                /\ failing \subseteq before
                /\ sessions' = StoreDestroyFailing(sessions, before, failing)
                /\ rev' = [rev EXCEPT !.pc = "uncaught", !.scanDestroyed = before,
                                      !.destroyedCount = @ + DestroyedCount(before, failing),
                                      !.destroyFailed = @ \cup failing]
         ELSE /\ failing \subseteq matched
              /\ sessions' = StoreDestroyFailing(sessions, matched, failing)
              /\ rev' = Respond([rev EXCEPT !.destroyedCount = count,
                                            !.scanDestroyed = matched,
                                            !.destroyFailed = @ \cup failing],
                                 RevocationStatus(count), "", "")
  /\ UNCHANGED <<userSessions, lastOp, call, now, sess, wt, audit, tok, vres>>

\* the callback of store.all over the MemoryStore, whose destroy never fails
ScanCallback == ScanCallbackStore({})

\* the callback of store.all when the store reports an error or hands over no
\* sessions: resolve(destroyedCount) of the Directory pass for an email,
\* resolve(0) for a subject, and the handler's res.sendStatus(204)
ScanCallbackFailed ==
  /\ rev.pc = "awaitAll"
  /\ LET count == IF rev.identifier.type = "email" THEN rev.destroyedCount ELSE 0
     IN  rev' = Respond([rev EXCEPT !.destroyedCount = count, !.storeFailed = TRUE],
                        RevocationStatus(count), "", "")
  /\ UNCHANGED <<userSessions, sessions, lastOp, call, now, sess, wt, audit, tok, vres>>

\* the response is out; the next request may arrive
RevokeReset ==
  /\ rev.pc = "done"
  /\ rev' = NoRequest
  /\ UNCHANGED <<userSessions, sessions, lastOp, call, now, sess, wt, audit, tok, vres>>

-----------------------------------------------------------------------------
(* The login flow, the collaborator that calls the Session Directory *)

\* the email the login flow may hand to registerUserSession for a principal: one
\* of its email-bearing fields, or undefined when it finds none
LoginEmails(user) ==
  {Absent} \cup {f \in {user.emails0, user.email, user.jsonEmail,
                        user.preferred_username} : ~Falsy(f) /\ ~ThrowsTypeError(f)}

\* a session id express-session has not handed out
FreshSid(sid) ==
  /\ sid \notin DOMAIN sessions
  /\ \A e \in DOMAIN userSessions : sid \notin userSessions[e]

\* login and logout run between the suspension points of a revocation request
EnvEnabled ==
  \/ rev.pc = "idle"
  \/ rev.pc \in {"awaitImport", "awaitAll"} /\ rev.envSteps < MaxInterleave

\* the audit trail of the request in flight notes the identities that logged in
EnvNoted(emails) ==
  IF rev.pc = "idle" THEN rev
  ELSE [rev EXCEPT !.envSteps = @ + 1, !.logins = @ \cup emails]

\* a session is established and, after primary authentication, registered
Login(sid, user, email) ==
  /\ EnvEnabled
  /\ FreshSid(sid)
  /\ email \in LoginEmails(user)
  /\ sessions' = MapSet(sessions, sid, [user |-> user])
  /\ userSessions' = registerUserSession(userSessions, email, sid)
  /\ rev' = EnvNoted({toLowerCase(f) : f \in LoginEmails(user) \ {Absent}})
  /\ UNCHANGED <<lastOp, call, now, sess, wt, audit, tok, vres>>

\* logout: unregister the pair that was registered, then destroy the session
Logout(sid) ==
  /\ EnvEnabled
  /\ sid \in DOMAIN sessions
  /\ LET holders == {e \in DOMAIN userSessions : sid \in userSessions[e]}
     IN  userSessions' = IF holders = {} THEN userSessions
                         ELSE unregisterUserSession(userSessions,
                                                    CHOOSE e \in holders : TRUE, sid)
  /\ sessions' = StoreDestroy(sessions, sid)
  /\ rev' = EnvNoted({})
  /\ UNCHANGED <<lastOp, call, now, sess, wt, audit, tok, vres>>

-----------------------------------------------------------------------------
(* Values of the variables a specification leaves alone *)

NoDirectoryCall == [op |-> "none", email |-> Absent, sid |-> Absent, had |-> FALSE,
                    threw |-> FALSE]
NoCall == [pc |-> "none", email |-> Absent, snapshot |-> EmptyMap, destroyedCount |-> 0,
           us0 |-> EmptyMap, st0 |-> EmptyMap, dirDestroyed |-> {},
           scanDestroyed |-> {}, allCalls |-> 0]
NoSession == [authenticated |-> FALSE, mfaVerified |-> FALSE, mfaVerifiedAt |-> 0,
              mfaReturnUrl |-> Absent]
NoWireRequest == [method |-> "none", path |-> "", at |-> 0, had |-> NoSession,
                  after |-> NoSession, formValid |-> FALSE, events |-> <<>>]
NoAudit == [ticks |-> 0, acquiredAt |-> 0, passes |-> 0]
NoToken == [jwt |-> [GoodToken EXCEPT !.wellFormed = FALSE], clientReady |-> FALSE]
NotValidated == [ok |-> FALSE, name |-> "", message |-> "not run"]

-----------------------------------------------------------------------------
(* The revocation endpoint beside the login flow *)

Init ==
  /\ userSessions = EmptyMap
  /\ sessions = EmptyMap
  /\ rev = NoRequest
  /\ lastOp = NoDirectoryCall
  /\ call = NoCall
  /\ now = NowStart
  /\ sess = NoSession
  /\ wt = NoWireRequest
  /\ audit = NoAudit
  /\ tok = NoToken
  /\ vres = NotValidated

Next ==
  \/ \E h \in Headers : RevokeArrive(h)
  \/ AuthResume
  \/ \E body \in Bodies : RevokeHandle(body)
  \/ SubjectScanStart
  \/ ScanCallback
  \/ RevokeReset
  \/ \E sid \in SIDs, user \in Users, email \in EmailArgs : Login(sid, user, email)
  \/ \E sid \in SIDs : Logout(sid)

Spec == Init /\ [][Next]_vars

-----------------------------------------------------------------------------
(* The revocation endpoint with inputs and a store that make resolution fail *)

\* the one request header of this specification: a valid bearer token
ValidHeader == Header(<<"Bearer", " ", "tGood">>)

\* bodies of well-formed requests, one of them with an email that is not a
\* string, and two that name one subject under two issuers
FaultyBodies ==
  {Body(SubId("email", "Ann@Bank.com", Absent, Absent)),
   Body(SubId("email", NotAString, Absent, Absent)),
   Body(SubId("iss_sub", Absent, expectedIssuer, "u1")),
   Body(SubId("iss_sub", Absent, "https://other.example", "u1"))}

\* the principals of this specification
FaultyUsers == {UserAnn, UserMixed, UserNumeric}

FaultyNext ==
  \/ RevokeArrive(ValidHeader)
  \/ AuthResume
  \/ \E body \in FaultyBodies, failing \in SUBSET SIDs : RevokeHandleStore(body, failing)
  \/ SubjectScanStart
  \/ \E failing \in SUBSET SIDs : ScanCallbackStore(failing)
  \/ ScanCallbackFailed
  \/ RevokeReset
  \/ \E sid \in SIDs, user \in FaultyUsers, email \in EmailArgs : Login(sid, user, email)
  \/ \E sid \in SIDs : Logout(sid)

SpecFaulty == Init /\ [][FaultyNext]_vars

\* the scheduling of one request: the event loop runs every continuation that is
\* ready (the authentication middleware's, the handler, the import) and the store
\* eventually invokes the callback of store.all. Arrivals, logins and the reset
\* are the environment's and carry no fairness.
FaultyFairness ==
  /\ WF_vars(AuthResume)
  /\ WF_vars(\E body \in FaultyBodies, failing \in SUBSET SIDs : RevokeHandleStore(body, failing))
  /\ WF_vars(SubjectScanStart)
  /\ WF_vars((\E failing \in SUBSET SIDs : ScanCallbackStore(failing)) \/ ScanCallbackFailed)

SpecFaultyFair == Init /\ [][FaultyNext]_vars /\ FaultyFairness

-----------------------------------------------------------------------------
(* Claims about the revocation endpoint *)

\* the header classes of C1: no header, a scheme other than Bearer, no token after it
C1_NoCredentials(h) ==
  \/ ~h.present
  \/ Len(h.value) <= 2
  \/ h.value[1] \notin {"Bearer", "BEARER", "bearer"}

\* the bearer token of the request passed validation
C1_Validated(h) ==
  /\ h.present
  /\ Len(h.value) >= 3
  /\ h.value[1] \in {"Bearer", "BEARER", "bearer"}
  /\ h.value[2] = " "
  /\ h.value[3] \in TokenNames
  /\ validateLogoutToken(TokenTable[h.value[3]], revocationEndpoint, expectedIssuer,
                         TRUE, now).ok

\* the request has reached resolution or left a trace of it
C1_Resolving ==
  \/ rev.pc \in {"handler", "awaitImport", "awaitAll"}
  \/ rev.dirDestroyed # {} \/ rev.scanDestroyed # {} \/ rev.allCalls > 0
  \/ rev.status \in {204, 400, 422}

\* C1: authentication comes before resolution. A revocation request destroys no
\* session and changes no Directory entry unless its bearer token was validated
\* first; a request with no Authorization header, a non-Bearer scheme or an empty
\* token is answered 401 and leaves the Directory and the store as they were.
C1_AuthBeforeResolution ==
  /\ C1_Resolving => C1_Validated(rev.authorization)
  /\ (rev.pc # "idle" /\ ~C1_Validated(rev.authorization))
       => (userSessions = rev.us0 /\ sessions = rev.st0)
  /\ (rev.pc # "idle" /\ C1_NoCredentials(rev.authorization))
       => (rev.pc = "done" /\ rev.status = 401 /\ rev.responses = 1)

\* a validated request has destroyed sessions, and is answered
C1_Witness ==
  /\ rev.pc = "done" /\ rev.status = 204
  /\ C1_Validated(rev.authorization)
  /\ rev.dirDestroyed # {}
  /\ sessions # rev.st0

\* the email a stored principal is known by: the first non-empty of its aliases
C2_PrincipalEmail(user) ==
  LET aliases == <<user.emails0, user.email, user.jsonEmail, user.preferred_username>>
      filled == {i \in 1..4 : aliases[i] # Absent /\ aliases[i] # ""}
  IN  IF filled = {} THEN Absent
      ELSE aliases[CHOOSE i \in filled : \A j \in filled : i <= j]

\* the stored sessions of st whose principal email is e, whatever the case
C2_SessionsOf(st, e) ==
  {sid \in DOMAIN st : /\ st[sid].user.present
                       /\ C2_PrincipalEmail(st[sid].user) # Absent
                       /\ toLowerCase(C2_PrincipalEmail(st[sid].user)) = e}

\* the ids the Directory holds for e
C2_TrackedFor(us, e) == IF e \in DOMAIN us THEN us[e] ELSE {}

\* an email-format revocation has been answered and nobody logged in as its
\* identity since resolution started
C2_Revoked(e) ==
  /\ rev.pc = "done" /\ rev.status = 204
  /\ rev.identifier.type = "email"
  /\ e = toLowerCase(rev.identifier.email)
  /\ e \notin rev.logins

\* C2: after an email-format revocation for E has responded, with no login for E
\* interleaved, the Directory has no entry for E and the store holds no session
\* whose principal email is E in any letter case: both the Directory pass and the
\* store enumeration ran, and every session tracked or stored for E when
\* resolution started was issued a destroy call.
C2_EmailRevocationComplete ==
  \A e \in {toLowerCase(x) : x \in EmailInputs} :
    C2_Revoked(e) =>
      /\ e \notin DOMAIN userSessions
      /\ C2_SessionsOf(sessions, e) = {}
      /\ rev.allCalls = 1
      /\ (C2_TrackedFor(rev.us0, e) \cup C2_SessionsOf(rev.st0, e))
            \subseteq (rev.dirDestroyed \cup rev.scanDestroyed)

\* a revocation whose two passes each destroyed a session, while another login ran
C2_Witness ==
  /\ C2_Revoked("ann@bank.com")
  /\ rev.dirDestroyed # {}
  /\ rev.scanDestroyed # {}
  /\ rev.scanDestroyed \cap rev.dirDestroyed = {}

\* the request handed a token to the validator and was refused
C11_ValidationFailed == rev.pc = "done" /\ rev.status = 401 /\ rev.token # ""

\* what the validator does with the token named t
C11_Failure(t) ==
  validateLogoutToken(TokenTable[t], revocationEndpoint, expectedIssuer, TRUE, now)

\* C11: every token validation failure is answered with a generic 401 that tells
\* expiry from other invalidity and nothing more: the body does not carry the
\* text of the validator's exception, and any two tokens that fail for reasons
\* other than expiry get the same response.
C11_GenericUnauthorized ==
  C11_ValidationFailed =>
    LET err == C11_Failure(rev.token)
    IN  /\ rev.error = "unauthorized"
        /\ rev.error_description # "Invalid token: " \o err.message
        /\ err.name # "TokenExpiredError" =>
              \A t \in TokenNames :
                LET other == C11_Failure(t)
                IN  (~other.ok /\ other.name # "TokenExpiredError")
                      => AuthFailureDescription(other) = rev.error_description

\* the handler has answered a request that passed authentication
C12_Answered == rev.pc = "done" /\ rev.logoutToken

\* the bodies C12 lists
C12_Malformed(body) ==
  \/ ~body.present
  \/ ~body.hasSubId
  \/ body.sub_id.format \notin {"email", "iss_sub"}
  \/ body.sub_id.format = "email" /\ body.sub_id.email \in {"", Absent}
  \/ body.sub_id.format = "iss_sub"
       /\ (body.sub_id.iss \in {"", Absent} \/ body.sub_id.sub \in {"", Absent})

\* the format as the response names it
C12_FormatName(body) ==
  IF body.sub_id.format = Absent THEN "undefined" ELSE body.sub_id.format

\* C12: an authenticated revocation request is answered 400 exactly when the body
\* is missing, sub_id is missing, the format is neither email nor iss_sub, or the
\* format's members are empty; it then destroys no session and changes no
\* Directory entry, and for a sub_id that is present the body of the response
\* names the format.
C12_MalformedGets400 ==
  C12_Answered =>
    /\ rev.status = 400 <=> C12_Malformed(rev.body)
    /\ rev.status = 400 =>
         /\ rev.error = "invalid_request"
         /\ rev.responses = 1
         /\ userSessions = rev.us0 /\ sessions = rev.st0
         /\ rev.dirDestroyed = {} /\ rev.scanDestroyed = {} /\ rev.allCalls = 0
         /\ rev.body.hasSubId =>
              rev.error_description =
                "Unrecognized subject identifier format: " \o C12_FormatName(rev.body)
                  \o ". Supported formats: email, iss_sub"

\* an email format with an empty email is refused while sessions are stored
C12_Witness ==
  /\ C12_Answered /\ rev.status = 400
  /\ rev.body.hasSubId
  /\ rev.body.sub_id.format = "email" /\ rev.body.sub_id.email = ""
  /\ sessions # EmptyMap

\* the body names a subject the handler can resolve
C13_WellFormed(body) ==
  /\ ~C12_Malformed(body)
  /\ body.sub_id.format = "email" => body.sub_id.email # NotAString

\* C13: an authenticated, well-formed revocation request gets the same 204
\* response, with nothing in it that depends on the count, whether no session or
\* some sessions matched the subject.
C13_SameResponseForAnyCount ==
  (C12_Answered /\ C13_WellFormed(rev.body)) =>
    /\ rev.status = 204
    /\ rev.error = "" /\ rev.error_description = ""
    /\ rev.responses = 1

\* a revocation that matched no session, while sessions are stored, is answered 204
C13_Witness ==
  /\ C12_Answered /\ C13_WellFormed(rev.body)
  /\ rev.status = 204
  /\ rev.destroyedCount = 0
  /\ rev.dirDestroyed = {} /\ rev.scanDestroyed = {}
  /\ sessions # EmptyMap

\* resolution of the request in flight met a failure: an email that is not a
\* string, or a stored record whose email is not a string
C14_ResolutionFailed ==
  /\ rev.logoutToken
  /\ rev.identifier.type = "email"
  /\ \/ rev.identifier.email = NotAString
     \/ rev.pc \in {"done", "uncaught"} /\ ScanThrows(rev.snapshot)

\* C14: a failure raised while the handler resolves and destroys sessions, in the
\* Directory pass, the enumeration or the matching of a record, is caught and
\* answered 422; the request is never left without a response.
C14_FailureAnswered422 ==
  /\ rev.pc # "uncaught"
  /\ (C14_ResolutionFailed /\ rev.pc \in {"done", "uncaught"})
       => (rev.pc = "done" /\ rev.status = 422 /\ rev.responses = 1)

\* the stored sessions whose principal is known by the subject sub
C15_SessionsOfSubject(st, sub) ==
  {sid \in DOMAIN st : /\ st[sid].user.present
                       /\ sub \in {st[sid].user.id, st[sid].user.jsonSub}}

\* an iss_sub revocation has been answered
C15_SubjectRevoked == C12_Answered /\ rev.status = 204 /\ rev.identifier.type = "iss_sub"

\* C15: an iss_sub revocation is fallback-only. It enumerates the store once,
\* destroys and counts exactly the sessions whose principal's subject equals sub,
\* and takes nothing from and changes nothing in the Directory: with no login or
\* logout interleaved the Directory is as it was when the request arrived, entries
\* naming destroyed sessions included.
C15_SubjectScanOnly ==
  C15_SubjectRevoked =>
    /\ rev.allCalls = 1
    /\ rev.dirDestroyed = {}
    /\ rev.scanDestroyed = C15_SessionsOfSubject(rev.snapshot, rev.identifier.subject)
    /\ rev.destroyedCount = Cardinality(rev.scanDestroyed)
    /\ rev.envSteps = 0 =>
         /\ userSessions = rev.us0
         /\ rev.snapshot = rev.st0
         /\ sessions = [sid \in DOMAIN rev.st0 \ rev.scanDestroyed |-> rev.st0[sid]]

\* a subject revocation destroyed a session the Directory still names
C15_Witness ==
  /\ C15_SubjectRevoked
  /\ rev.envSteps = 0
  /\ \E e \in DOMAIN userSessions : userSessions[e] \cap rev.scanDestroyed # {}
  /\ \E sid \in rev.scanDestroyed : rev.st0[sid].user.id # rev.identifier.subject

\* a login step: the store gains the session sid
C16_LoginStep(sid) == sid \notin DOMAIN sessions /\ sid \in DOMAIN sessions'

\* the request in flight resumes from a suspension point
C16_Resumes == rev.pc \in {"awaitImport", "awaitAll"} /\ rev'.pc # rev.pc

\* C16: under any interleaving of request-handling tasks no Directory update is
\* lost. A register that runs while other tasks are suspended keeps every id
\* every identity already had and adds its own, and a revocation that resumes
\* after a suspension writes nothing to the Directory, so it cannot overwrite
\* what was registered while it was suspended.
C16_NoLostUpdate ==
  [][/\ \A sid \in SIDs :
          C16_LoginStep(sid) =>
            /\ \A e \in DOMAIN userSessions :
                  e \in DOMAIN userSessions' /\ userSessions[e] \subseteq userSessions'[e]
            /\ userSessions' # userSessions
                  => \E e \in DOMAIN userSessions' : sid \in userSessions'[e]
     /\ C16_Resumes => userSessions' = userSessions]_vars

\* the second register for an identity ran while a revocation was suspended, and
\* both ids are in the identity's set
C16_Witness ==
  /\ rev.pc = "awaitAll" /\ rev.envSteps = 1
  /\ "ann@bank.com" \in DOMAIN userSessions
  /\ userSessions["ann@bank.com"] = {"s1", "s2"}
  /\ "ann@bank.com" \in DOMAIN rev.us0
  /\ Cardinality(rev.us0["ann@bank.com"]) = 1

\* C21: every request that reaches the handler gets exactly one response, with a
\* status among 204, 400, 401, 422 and 500: no state has two responses, an
\* answered request has one, and, the store invoking its callbacks, a request in
\* the handler is eventually answered.
C21_ExactlyOneResponse ==
  /\ [](rev.responses <= 1)
  /\ [](rev.pc = "done" => (rev.responses = 1 /\ rev.status \in {204, 400, 401, 422, 500}))
  /\ (rev.pc = "handler") ~> (rev.pc = "done")

\* the enumeration of the request in flight has run its loop
C22_Enumerated == rev.pc \in {"done", "uncaught"} /\ rev.allCalls = 1 /\ ~rev.storeFailed

\* the well-formed records of the enumeration that belong to the request's identity
C22_Matching ==
  IF rev.identifier.type = "email"
  THEN C2_SessionsOf(rev.snapshot, toLowerCase(rev.identifier.email))
  ELSE C15_SessionsOfSubject(rev.snapshot, rev.identifier.subject)

\* C22: a store enumeration skips a missing or malformed record (no principal, or
\* an identifying field that is absent or not a string): whatever records the
\* store holds, once the loop has run every matching session was issued a destroy
\* call and the request has its response.
C22_MalformedSkipped ==
  C22_Enumerated =>
    /\ rev.pc = "done" /\ rev.responses = 1
    /\ C22_Matching \subseteq rev.scanDestroyed

\* the store reported a failure to the request in flight
C23_StoreFailure == rev.destroyFailed # {} \/ rev.storeFailed

\* C23: destruction is best-effort. A request that met a failed destroy or a
\* failed enumeration is answered 204 all the same; every id of the Directory
\* set was issued a destroy call and is counted, failed or not; the scan issued
\* a destroy call for every match and counted each; the Directory entry is gone
\* unless somebody logged in again; a failed enumeration leaves the count of the
\* Directory pass (0 for a subject). A store failure alone never leaves the
\* request unanswered.
C23_BestEffort ==
  /\ rev.pc = "uncaught" => ScanThrows(rev.snapshot)
  /\ (rev.pc = "done" /\ rev.allCalls = 1 /\ C23_StoreFailure) =>
       /\ rev.status = 204 /\ rev.responses = 1
       /\ rev.destroyFailed \subseteq (rev.dirDestroyed \cup rev.scanDestroyed)
       /\ IF rev.identifier.type = "email"
          THEN LET e == toLowerCase(rev.identifier.email)
               IN  /\ rev.dirDestroyed = C2_TrackedFor(rev.us0, e)
                   /\ e \notin rev.logins => e \notin DOMAIN userSessions
                   /\ IF rev.storeFailed
                      THEN rev.destroyedCount = Cardinality(rev.dirDestroyed)
                      ELSE /\ rev.scanDestroyed = ScanByEmail(rev.snapshot, e)
                           /\ rev.destroyedCount = Cardinality(rev.dirDestroyed)
                                                     + Cardinality(rev.scanDestroyed)
          ELSE IF rev.storeFailed
               THEN rev.destroyedCount = 0
               ELSE /\ rev.scanDestroyed = ScanBySubject(rev.snapshot, rev.identifier.subject)
                    /\ rev.destroyedCount = Cardinality(rev.scanDestroyed)

\* the Directory pass was issued for two ids, the store failed one destroy and
\* then the enumeration: both ids are counted, the failed session is still
\* stored, the entry is gone and the answer is 204
C23_Witness ==
  /\ rev.pc = "done" /\ rev.status = 204
  /\ rev.identifier.type = "email"
  /\ rev.dirDestroyed = {"s1", "s2"}
  /\ Cardinality(rev.destroyFailed) = 1
  /\ rev.destroyFailed \subseteq DOMAIN sessions
  /\ rev.storeFailed
  /\ rev.destroyedCount = 2
  /\ toLowerCase(rev.identifier.email) \notin DOMAIN userSessions

\* the store.all callback of the request in flight runs and the handler answers
C24_ScanStep == rev.pc = "awaitAll" /\ rev'.pc = "done"

\* C24: revocation is not atomic with respect to login. The scan works on the
\* sessions enumerated by store.all, so a session created and registered after
\* the enumeration and before the response is touched by no later step of the
\* revocation: it is stored, unchanged, and the Directory is as the login left it.
C24_LateLoginSurvives ==
  [][C24_ScanStep =>
       /\ userSessions' = userSessions
       /\ \A sid \in DOMAIN sessions \ DOMAIN rev.snapshot :
             sid \in DOMAIN sessions' /\ sessions'[sid] = sessions[sid]]_vars

\* a revocation for ann@bank.com answered 204 while a session of that identity,
\* created and registered after the enumeration, is in the store and the Directory
C24_Witness ==
  /\ rev.pc = "done" /\ rev.status = 204
  /\ rev.identifier.type = "email"
  /\ toLowerCase(rev.identifier.email) = "ann@bank.com"
  /\ rev.allCalls = 1 /\ rev.envSteps = 1
  /\ \E sid \in DOMAIN sessions \ DOMAIN rev.snapshot :
       /\ C2_PrincipalEmail(sessions[sid].user) # Absent
       /\ toLowerCase(C2_PrincipalEmail(sessions[sid].user)) = "ann@bank.com"
       /\ "ann@bank.com" \in DOMAIN userSessions
       /\ sid \in userSessions["ann@bank.com"]

\* a step of the request in flight, as opposed to a login or a logout
C27_RequestStep == rev.pc # "idle" /\ rev'.pc # rev.pc

\* the identity of an email-format request whose Directory pass runs in this step
C27_PassIdentity ==
  IF rev.pc = "handler" /\ rev'.pc = "awaitAll" /\ rev'.identifier.type = "email"
  THEN {toLowerCase(rev'.identifier.email)}
  ELSE {}

\* the sessions a step of the request may destroy
C27_MayDestroy ==
  IF rev.pc = "handler"
  THEN UNION {C2_TrackedFor(userSessions, e) : e \in C27_PassIdentity}
  ELSE IF rev.pc = "awaitAll"
  THEN IF rev.identifier.type = "email"
       THEN C2_SessionsOf(rev.snapshot, toLowerCase(rev.identifier.email))
       ELSE C15_SessionsOfSubject(rev.snapshot, rev.identifier.subject)
  ELSE {}

\* C27: a revocation never over-revokes. Every step of a request destroys only
\* sessions of the identity's Directory set (the Directory pass) or enumerated
\* sessions whose principal is the identity (the scan); every other stored
\* session is kept as it was, every other identity's Directory entry is kept as
\* it was, and no entry appears.
C27_NoOverRevocation ==
  [][C27_RequestStep =>
       /\ (DOMAIN sessions \ DOMAIN sessions') \subseteq C27_MayDestroy
       /\ \A sid \in DOMAIN sessions' :
             sid \in DOMAIN sessions /\ sessions'[sid] = sessions[sid]
       /\ DOMAIN userSessions \ DOMAIN userSessions' \subseteq C27_PassIdentity
       /\ \A k \in DOMAIN userSessions' :
             k \in DOMAIN userSessions /\ userSessions'[k] = userSessions[k]]_vars

\* a revocation for ann@bank.com destroyed a tracked session while bob@bank.com's
\* entry and stored session are what they were when the request arrived
C27_Witness ==
  /\ rev.pc = "done" /\ rev.status = 204
  /\ rev.identifier.type = "email"
  /\ toLowerCase(rev.identifier.email) = "ann@bank.com"
  /\ rev.dirDestroyed # {} /\ rev.envSteps = 0
  /\ "bob@bank.com" \in DOMAIN userSessions
  /\ "bob@bank.com" \in DOMAIN rev.us0
  /\ userSessions["bob@bank.com"] = rev.us0["bob@bank.com"]
  /\ \E sid \in userSessions["bob@bank.com"] :
       sid \in DOMAIN sessions /\ sid \in DOMAIN rev.st0 /\ sessions[sid] = rev.st0[sid]

\* the issuers a subject may be named under
C28_Issuers == {expectedIssuer, "https://other.example"}

\* an iss_sub request whose scan has run and which has been answered
C28_SubjectAnswered ==
  /\ rev.pc = "done" /\ rev.allCalls = 1 /\ ~rev.storeFailed
  /\ rev.body.present /\ rev.body.hasSubId
  /\ rev.body.sub_id.format = "iss_sub"

\* C28: the issuer of an iss_sub request takes no part in selecting sessions.
\* Whatever issuer the request named, the same request under any other issuer
\* resolves to the same subject, its scan of the same enumeration issues destroy
\* calls for the same sessions, which are the ones whose principal is the sub,
\* and it gets the same status.
C28_IssuerIgnored ==
  C28_SubjectAnswered =>
    \A iss \in C28_Issuers :
      LET other == extractUserIdentifier(SubId("iss_sub", Absent, iss, rev.body.sub_id.sub))
          destroyed == ScanBySubject(rev.snapshot, other.subject)
      IN  /\ other.ok
          /\ other.subject = rev.identifier.subject
          /\ destroyed = rev.scanDestroyed
          /\ rev.scanDestroyed = C15_SessionsOfSubject(rev.snapshot, rev.body.sub_id.sub)
          /\ RevocationStatus(Cardinality(destroyed)) = rev.status

\* a request naming the subject under the second issuer destroyed a session
C28_Witness ==
  /\ C28_SubjectAnswered
  /\ rev.body.sub_id.iss = "https://other.example"
  /\ rev.scanDestroyed # {}

-----------------------------------------------------------------------------
(* The Session Directory under any sequence of calls of its exported functions *)

\* the sessionId argument of a call: a session id, or the empty string
SidArgs == SIDs \cup {""}

\* audit: the Directory holds sid for email before the call
Tracked(us, email, sid) ==
  /\ ~Falsy(email)
  /\ toLowerCase(email) \in DOMAIN us
  /\ sid \in us[toLowerCase(email)]

\* express-session saves a new session in the store
SessionSaved(sid, user) ==
  /\ call.pc # "awaitAll"
  /\ sid \notin DOMAIN sessions
  /\ sessions' = MapSet(sessions, sid, [user |-> user])
  /\ lastOp' = [op |-> "save", email |-> Absent, sid |-> sid, had |-> FALSE,
                threw |-> FALSE]
  /\ call' = NoCall
  /\ UNCHANGED <<userSessions, rev, now, sess, wt, audit, tok, vres>>

\* registerUserSession(email, sid)
CallRegister(email, sid) ==
  /\ call.pc # "awaitAll"
  /\ userSessions' = registerUserSession(userSessions, email, sid)
  /\ lastOp' = [op |-> "register", email |-> email, sid |-> sid,
                had |-> Tracked(userSessions, email, sid),
                threw |-> DirectoryCallThrows(email, sid)]
  /\ call' = NoCall
  /\ UNCHANGED <<sessions, rev, now, sess, wt, audit, tok, vres>>

\* unregisterUserSession(email, sid)
CallUnregister(email, sid) ==
  /\ call.pc # "awaitAll"
  /\ userSessions' = unregisterUserSession(userSessions, email, sid)
  /\ lastOp' = [op |-> "unregister", email |-> email, sid |-> sid,
                had |-> Tracked(userSessions, email, sid),
                threw |-> DirectoryCallThrows(email, sid)]
  /\ call' = NoCall
  /\ UNCHANGED <<sessions, rev, now, sess, wt, audit, tok, vres>>

\* destroyUserSessions(email) up to the call of store.all
CallDestroy(email) ==
  /\ call.pc # "awaitAll"
  /\ lastOp' = [op |-> "destroy", email |-> email, sid |-> Absent,
                had |-> (~Falsy(email) /\ toLowerCase(email) \in DOMAIN userSessions),
                threw |-> (~Falsy(email) /\ ThrowsTypeError(email))]
  /\ LET c0 == [NoCall EXCEPT !.email = email, !.us0 = userSessions, !.st0 = sessions]
     IN  IF Falsy(email)
         THEN /\ call' = [c0 EXCEPT !.pc = "returned"]
              /\ UNCHANGED <<userSessions, sessions>>
         ELSE IF ThrowsTypeError(email)
         THEN \* email.toLowerCase() throws: the promise of the async function rejects
              /\ call' = [c0 EXCEPT !.pc = "rejected"]
              /\ UNCHANGED <<userSessions, sessions>>
         ELSE LET normalizedEmail == toLowerCase(email)
                  sessionIds == DirectoryPass(userSessions, normalizedEmail)
                  afterPass == StoreDestroyAll(sessions, sessionIds)
              IN  /\ sessions' = afterPass
                  /\ userSessions' = DirectoryAfterPass(userSessions, normalizedEmail)
                  /\ call' = [c0 EXCEPT !.pc = "awaitAll",
                                        !.destroyedCount = Cardinality(sessionIds),
                                        !.dirDestroyed = sessionIds,
                                        !.snapshot = StoreAll(afterPass),
                                        !.allCalls = @ + 1]
  /\ UNCHANGED <<rev, now, sess, wt, audit, tok, vres>>

\* the callback of store.all in destroyUserSessions: the scan and
\* resolve(destroyedCount), or the exception of the loop that leaves the promise pending
DestroyCallback ==
  /\ call.pc = "awaitAll"
  /\ LET matched == ScanByEmail(call.snapshot, toLowerCase(call.email))
     IN  IF ScanThrows(call.snapshot)
         THEN \E before \in SUBSET matched :
                /\ sessions' = StoreDestroyAll(sessions, before)
                /\ call' = [call EXCEPT !.pc = "uncaught",
                                        !.destroyedCount = @ + Cardinality(before),
                                        !.scanDestroyed = before]
         ELSE /\ sessions' = StoreDestroyAll(sessions, matched)
              /\ call' = [call EXCEPT !.pc = "returned",
                                      !.destroyedCount = @ + Cardinality(matched),
                                      !.scanDestroyed = matched]
  /\ UNCHANGED <<userSessions, rev, lastOp, now, sess, wt, audit, tok, vres>>

\* the argument pairs of the register and unregister calls: every identity with
\* every session id argument, and each email that is no identity with one id
DirectoryArgs ==
  (EmailInputs \X SidArgs) \cup ((EmailArgs \ EmailInputs) \X {SidNames[1]})

\* the principals of the sessions saved in this specification
DirectoryUsers == {UserAnn, UserMixed, NoUser}

DirectoryNext ==
  \/ \E sid \in SIDs, user \in DirectoryUsers : SessionSaved(sid, user)
  \/ \E a \in DirectoryArgs : CallRegister(a[1], a[2])
  \/ \E a \in DirectoryArgs : CallUnregister(a[1], a[2])
  \/ \E email \in EmailArgs : CallDestroy(email)
  \/ DestroyCallback

SpecDirectory == Init /\ [][DirectoryNext]_vars

-----------------------------------------------------------------------------
(* Claims about the Session Directory *)

\* C3: in every reachable state of the Session Directory, after any sequence of
\* register, unregister and destroy-all calls, no identity is mapped to an empty
\* set: an entry exists exactly when the identity has a session id.
C3_NoEmptyEntry ==
  \A e \in DOMAIN userSessions : userSessions[e] # {}

\* an unregister call has removed the last session id of an identity, and its entry
C3_Witness ==
  /\ lastOp.op = "unregister"
  /\ lastOp.had
  /\ toLowerCase(lastOp.email) \notin DOMAIN userSessions
  /\ DOMAIN userSessions # {}

\* a destroyUserSessions call has returned
C4_Returned == call.pc = "returned" /\ lastOp.op = "destroy"

\* the identity of the returned call, and the ids the Directory held for it
C4_Identity == toLowerCase(call.email)
C4_Registered == C2_TrackedFor(call.us0, C4_Identity)

\* the sessions stored for the identity that the Directory did not hold
C4_Untracked == C2_SessionsOf(call.st0, C4_Identity) \ C4_Registered

\* C4 as stated: for an identity registered with N distinct session ids,
\* destroyUserSessions returns exactly N and leaves no Directory entry.
C4_ReturnsExactlyN ==
  (C4_Returned /\ lastOp.had) =>
     /\ call.destroyedCount = Cardinality(C4_Registered)
     /\ C4_Identity \notin DOMAIN userSessions

\* C4 as amended: for an identity registered with N distinct session ids,
\* destroyUserSessions issues a destroy call for each of the N ids, leaves no
\* Directory entry, and returns N plus the number of stored sessions of that
\* identity the Directory did not hold; it returns exactly N when there is none.
C4_ReturnsNPlusUntracked ==
  (C4_Returned /\ lastOp.had) =>
     /\ call.dirDestroyed = C4_Registered
     /\ call.destroyedCount = Cardinality(C4_Registered) + Cardinality(C4_Untracked)
     /\ (C4_Untracked = {} => call.destroyedCount = Cardinality(C4_Registered))
     /\ C4_Identity \notin DOMAIN userSessions

\* a registered id and a stored session of the identity the Directory did not hold
C4_Witness ==
  /\ C4_Returned /\ lastOp.had
  /\ Cardinality(C4_Registered) = 1
  /\ C4_Untracked # {}
  /\ call.destroyedCount = 2

\* C5 as stated: on an identity that has no Directory entry destroyUserSessions
\* returns 0 and makes no store call, neither destroy nor enumeration, and
\* leaves the store unchanged.
C5_NoEntryNoStoreCall ==
  (C4_Returned /\ ~lastOp.had) =>
     /\ call.destroyedCount = 0
     /\ call.allCalls = 0
     /\ call.dirDestroyed \cup call.scanDestroyed = {}
     /\ sessions = call.st0

\* C5 as amended: on an identity that has no Directory entry destroyUserSessions
\* issues no destroy call from the Directory and leaves the Directory unchanged,
\* but it still enumerates the store once and destroys and counts every stored
\* session whose principal email is the identity; it returns 0 without any
\* store call only when the identity is empty or absent.
C5_NoEntryScansStore ==
  (C4_Returned /\ ~lastOp.had) =>
     /\ call.dirDestroyed = {}
     /\ userSessions = call.us0
     /\ IF Falsy(call.email)
        THEN call.destroyedCount = 0 /\ call.allCalls = 0 /\ sessions = call.st0
        ELSE /\ call.allCalls = 1
             /\ call.scanDestroyed = C2_SessionsOf(call.st0, C4_Identity)
             /\ call.destroyedCount = Cardinality(call.scanDestroyed)
             /\ sessions = StoreDestroyAll(call.st0, call.scanDestroyed)

\* a call for an identity without entry that destroyed a stored session
C5_Witness ==
  /\ C4_Returned /\ ~lastOp.had
  /\ call.email = "ann@bank.com"
  /\ call.destroyedCount = 1
  /\ call.allCalls = 1

\* the letter-casings of each identity of the model
C17_Casings == {{"Ann@Bank.com", "ann@bank.com"}, {"bob@bank.com"}}

\* the ids the Directory us holds under any casing of the identity
C17_IdsOf(us, identity) ==
  UNION {us[e] : e \in DOMAIN us \cap identity}

\* C17: identity matching in the Directory is case-insensitive. In every reachable
\* Directory each identity has at most one entry, whatever casings it was
\* registered under, and a session registered under one casing is found,
\* unregistered and destroyed by a call given any other casing of the identity.
C17_CaseInsensitive ==
  \A identity \in C17_Casings :
    /\ Cardinality(DOMAIN userSessions \cap identity) <= 1
    /\ \A a \in identity, b \in identity, sid \in SIDs :
          LET registered == registerUserSession(userSessions, a, sid)
          IN  /\ Cardinality(DOMAIN registered \cap identity) = 1
              /\ sid \in C17_IdsOf(registered, identity)
              /\ Tracked(registered, b, sid)
              /\ sid \notin C17_IdsOf(unregisterUserSession(registered, b, sid), identity)
              /\ sid \in DirectoryPass(registered, toLowerCase(b))
              /\ C17_IdsOf(registered, identity) = DirectoryPass(registered, toLowerCase(b))
              /\ DOMAIN DirectoryAfterPass(registered, toLowerCase(b)) \cap identity = {}
    /\ (lastOp.op = "register" /\ lastOp.email \in identity /\ lastOp.sid \in SIDs)
          => lastOp.sid \in C17_IdsOf(userSessions, identity)
    /\ (lastOp.op = "unregister" /\ lastOp.email \in identity /\ lastOp.sid \in SIDs)
          => lastOp.sid \notin C17_IdsOf(userSessions, identity)
    /\ (lastOp.op = "destroy" /\ lastOp.email \in identity)
          => /\ C17_IdsOf(userSessions, identity) = {}
             /\ call.dirDestroyed = C17_IdsOf(call.us0, identity)

\* a destroy given the capitalized identity found the ids held under the
\* lower-case key
C17_Witness ==
  /\ lastOp.op = "destroy" /\ lastOp.email = "Ann@Bank.com"
  /\ call.pc = "returned"
  /\ "ann@bank.com" \in DOMAIN call.us0
  /\ call.dirDestroyed = {"s1", "s2"}

\* C18: for every identity that has no registered session, in every reachable
\* Directory, register(identity, sid) followed by unregister(identity, sid) leaves
\* no entry for the identity; and an unregister of the only id an identity had
\* has left no entry.
C18_RegisterUnregister ==
  /\ \A identity \in C17_Casings :
        C17_IdsOf(userSessions, identity) = {} =>
          \A a \in identity, sid \in SIDs :
            LET after == unregisterUserSession(registerUserSession(userSessions, a, sid),
                                               a, sid)
            IN  /\ DOMAIN after \cap identity = {}
                /\ after = userSessions
  /\ \A identity \in C17_Casings :
        (lastOp.op = "unregister" /\ lastOp.had /\ lastOp.email \in identity)
          => (DOMAIN userSessions \cap identity # {}
                => C17_IdsOf(userSessions, identity) # {})

\* the only session of an identity was unregistered while another identity keeps
\* its entry
C18_Witness ==
  /\ lastOp.op = "unregister" /\ lastOp.had
  /\ lastOp.email = "Ann@Bank.com"
  /\ "ann@bank.com" \notin DOMAIN userSessions
  /\ "bob@bank.com" \in DOMAIN userSessions

\* C19: register is a no-op when either argument is empty or absent and is
\* idempotent otherwise, and no Directory operation throws on missing or invalid
\* input.
C19_RegisterTotal ==
  /\ \A email \in EmailArgs, sid \in SidArgs \cup {Absent} :
        LET once == registerUserSession(userSessions, email, sid)
        IN  /\ (email \in {"", Absent} \/ sid \in {"", Absent}) => once = userSessions
            /\ registerUserSession(once, email, sid) = once
  /\ (lastOp.op = "register" /\ (lastOp.email \in {"", Absent} \/ lastOp.sid = ""))
        => ~lastOp.had
  /\ ~lastOp.threw
  /\ call.pc # "rejected"

\* the email-bearing fields of a principal that hold a value
C20_EmailFields(user) ==
  {f \in {user.emails0, user.email, user.jsonEmail, user.preferred_username} :
     f \notin {"", Absent, NotAString}}

\* the identity of an email, whatever its casing
C20_IdentityOf(email) == CHOOSE identity \in C17_Casings : email \in identity

\* C20: the fallback scan of destroyUserSessions destroys every stored session
\* whose principal bears the revoked email in any of its email-bearing fields,
\* also when an earlier field of the list holds another value.
C20_ScanMatchesAnyField ==
  (call.pc = "returned" /\ call.email \in EmailInputs) =>
    \A sid \in DOMAIN call.snapshot :
      (/\ call.snapshot[sid].user.present
       /\ C20_EmailFields(call.snapshot[sid].user) \cap C20_IdentityOf(call.email) # {})
        => sid \in call.scanDestroyed

\* the pair (email, sessionId) names an id the Directory us holds
C25_Found(us, email, sessionId) ==
  /\ ~Falsy(email) /\ ~Falsy(sessionId)
  /\ toLowerCase(email) \in DOMAIN us
  /\ sessionId \in us[toLowerCase(email)]

\* C25: unregister(identity, sessionId) removes only that session id. At every
\* Directory the program reaches and for every pair of arguments: every other
\* identity's entry is unchanged and no entry appears; when the id is in the
\* identity's set the set loses that id and nothing else, and the entry goes
\* exactly when the id was its last; when the identity is unknown or the id is
\* not in its set the Directory is unchanged.
C25_UnregisterFrame ==
  \A email \in EmailInputs \cup {"", Absent}, sid \in SidArgs :
    LET after == unregisterUserSession(userSessions, email, sid)
        others == IF Falsy(email) THEN DOMAIN userSessions
                  ELSE DOMAIN userSessions \ {toLowerCase(email)}
    IN  /\ DOMAIN after \subseteq DOMAIN userSessions
        /\ \A k \in others : k \in DOMAIN after /\ after[k] = userSessions[k]
        /\ IF C25_Found(userSessions, email, sid)
           THEN LET k == toLowerCase(email)
                IN  IF userSessions[k] = {sid}
                    THEN k \notin DOMAIN after
                    ELSE k \in DOMAIN after /\ after[k] = userSessions[k] \ {sid}
           ELSE after = userSessions

\* an unregister call removed one of two ids of ann@bank.com: the other id is
\* still in the entry, next to the entry of bob@bank.com
C25_Witness ==
  /\ lastOp.op = "unregister" /\ lastOp.had
  /\ toLowerCase(lastOp.email) = "ann@bank.com"
  /\ "ann@bank.com" \in DOMAIN userSessions
  /\ Cardinality(userSessions["ann@bank.com"]) = 1
  /\ lastOp.sid \notin userSessions["ann@bank.com"]
  /\ "bob@bank.com" \in DOMAIN userSessions

-----------------------------------------------------------------------------
(* Step-up authentication gate: routes/wire-transfer.mjs *)

\* const MFA_TIMEOUT = 5 * 60 * 1000
MFA_TIMEOUT == 5 * 60 * 1000

\* the path the wire-transfer router is mounted at
WireTransferPath == "/wire-transfer"

\* ensureLoggedIn(req, res, next): what it does, in order
ensureLoggedIn(session) ==
  IF session.authenticated THEN <<"ensureLoggedIn:next">> ELSE <<"redirect:/login">>

\* a gate that treats the end of the window as still fresh
ensureMfaVerifiedInclusive(session, nowMs) ==
  IF session.mfaVerified /\ session.mfaVerifiedAt # 0
     /\ (nowMs - session.mfaVerifiedAt) <= MFA_TIMEOUT
  THEN [events |-> <<"ensureMfaVerified:next">>, session |-> session]
  ELSE [events |-> <<"session.mfaReturnUrl=", "redirect:/stepup-mfa">>,
        session |-> [session EXCEPT !.mfaReturnUrl = "/wire-transfer"]]

\* a gate that redirects without remembering where the request was going
ensureMfaVerifiedForgetful(session, nowMs) ==
  IF session.mfaVerified /\ session.mfaVerifiedAt # 0
     /\ (nowMs - session.mfaVerifiedAt) < MFA_TIMEOUT
  THEN [events |-> <<"ensureMfaVerified:next">>, session |-> session]
  ELSE [events |-> <<"redirect:/stepup-mfa">>, session |-> session]

\* a gate with a sliding window: passing it stamps the session again
ensureMfaVerifiedSliding(session, nowMs) ==
  IF session.mfaVerified /\ session.mfaVerifiedAt # 0
     /\ (nowMs - session.mfaVerifiedAt) < MFA_TIMEOUT
  THEN [events |-> <<"ensureMfaVerified:next">>,
        session |-> [session EXCEPT !.mfaVerifiedAt = nowMs]]
  ELSE [events |-> <<"session.mfaReturnUrl=", "redirect:/stepup-mfa">>,
        session |-> [session EXCEPT !.mfaReturnUrl = "/wire-transfer"]]

\* ensureMfaVerified(req, res, next): what it does, in order, and the session it
\* leaves; an undefined mfaVerifiedAt is the falsy 0
ensureMfaVerified(session, nowMs) ==
  IF session.mfaVerified /\ session.mfaVerifiedAt # 0
     /\ (nowMs - session.mfaVerifiedAt) < MFA_TIMEOUT
  THEN [events |-> <<"ensureMfaVerified:next">>, session |-> session]
  ELSE [events |-> <<"session.mfaReturnUrl=", "redirect:/stepup-mfa">>,
        session |-> [session EXCEPT !.mfaReturnUrl = "/wire-transfer"]]

\* the guards of router.get('/'), in the order they are registered
GetGuards == <<"ensureLoggedIn", "ensureMfaVerified">>

\* the guards of router.post('/')
PostGuards == <<"ensureLoggedIn">>

\* a middleware chain run on a session: the events, and the session it leaves
RECURSIVE RunGuards(_, _, _)
RunGuards(guards, session, nowMs) ==
  IF guards = <<>> THEN [events |-> <<"handler">>, session |-> session]
  ELSE LET step == IF Head(guards) = "ensureLoggedIn"
                   THEN [events |-> ensureLoggedIn(session), session |-> session]
                   ELSE ensureMfaVerified(session, nowMs)
           last == step.events[Len(step.events)]
       IN  IF last \in {"ensureLoggedIn:next", "ensureMfaVerified:next"}
           THEN LET rest == RunGuards(Tail(guards), step.session, nowMs)
                IN  [events |-> step.events \o rest.events, session |-> rest.session]
           ELSE step

\* the time the clock may advance by, in milliseconds
TickSteps == {1, 1000, 299 * 1000, 299999}

Tick(d) ==
  /\ audit.ticks < MaxTicks
  /\ now' = now + d
  /\ audit' = [audit EXCEPT !.ticks = @ + 1]
  /\ UNCHANGED <<userSessions, sessions, rev, lastOp, call, sess, wt, tok, vres>>

\* primary authentication: a new session, logged in, without step-up marker
BrowserLogin ==
  /\ ~sess.authenticated
  /\ sess' = [NoSession EXCEPT !.authenticated = TRUE]
  /\ audit' = [audit EXCEPT !.acquiredAt = 0, !.passes = 0]
  /\ UNCHANGED <<userSessions, sessions, rev, lastOp, call, now, wt, tok, vres>>

\* the step-up re-authentication succeeded: the only writer of the marker
StepUpMfa ==
  /\ sess.authenticated
  /\ sess' = [sess EXCEPT !.mfaVerified = TRUE, !.mfaVerifiedAt = now]
  /\ audit' = [audit EXCEPT !.acquiredAt = now, !.passes = 0]
  /\ UNCHANGED <<userSessions, sessions, rev, lastOp, call, now, wt, tok, vres>>

\* the session is destroyed
BrowserLogout ==
  /\ sess.authenticated
  /\ sess' = NoSession
  /\ audit' = [audit EXCEPT !.acquiredAt = 0, !.passes = 0]
  /\ UNCHANGED <<userSessions, sessions, rev, lastOp, call, now, wt, tok, vres>>

\* GET /wire-transfer
GetWireTransfer ==
  /\ LET run == RunGuards(GetGuards, sess, now)
         handled == run.events[Len(run.events)] = "handler"
     IN  /\ sess' = run.session
         /\ wt' = [method |-> "GET", path |-> WireTransferPath, at |-> now, had |-> sess,
                   after |-> run.session, formValid |-> FALSE,
                   events |-> IF handled THEN Append(run.events, "render:wire-transfer")
                              ELSE run.events]
         /\ audit' = [audit EXCEPT !.passes = IF handled /\ @ < 2 THEN @ + 1 ELSE @]
  /\ UNCHANGED <<userSessions, sessions, rev, lastOp, call, now, tok, vres>>

\* POST /wire-transfer; formValid says whether the validation found no error
PostWireTransfer(formValid) ==
  /\ LET run == RunGuards(PostGuards, sess, now)
         handled == run.events[Len(run.events)] = "handler"
     IN  /\ sess' = run.session
         /\ wt' = [method |-> "POST", path |-> WireTransferPath, at |-> now, had |-> sess,
                   after |-> run.session, formValid |-> formValid,
                   events |-> IF ~handled THEN run.events
                              ELSE IF formValid
                                   THEN Append(run.events, "render:wire-transfer-confirm")
                                   ELSE Append(run.events, "render:wire-transfer")]
  /\ UNCHANGED <<userSessions, sessions, rev, lastOp, call, now, audit, tok, vres>>

GateNext ==
  \/ \E d \in TickSteps : Tick(d)
  \/ BrowserLogin
  \/ StepUpMfa
  \/ BrowserLogout
  \/ GetWireTransfer
  \/ \E formValid \in BOOLEAN : PostWireTransfer(formValid)

SpecGate == Init /\ [][GateNext]_vars

-----------------------------------------------------------------------------
(* Claims about the step-up gate *)

\* the session carried a fresh marker when the last request arrived: the flag
\* is true and less than 5 minutes (300 s) have passed since the timestamp
C6_Fresh ==
  /\ wt.had.mfaVerified = TRUE
  /\ wt.had.mfaVerifiedAt > 0
  /\ wt.at - wt.had.mfaVerifiedAt < 300 * 1000

\* the last request reached the protected handler
C6_Proceeded == \E i \in 1..Len(wt.events) : wt.events[i] = "handler"

\* the last request was a GET /wire-transfer of a logged-in session
C6_GatedRequest == wt.method = "GET" /\ wt.had.authenticated

\* C6: the step-up gate lets a request through to the protected handler if and
\* only if the session has mfaVerified true and now - mfaVerifiedAt is strictly
\* less than 300 s: fresh at T+299 s, stale at T+300 s and at T+301 s; an absent
\* flag or timestamp is stale.
C6_FreshIffWithinWindow ==
  C6_GatedRequest =>
    /\ C6_Proceeded <=> C6_Fresh
    /\ (wt.had.mfaVerified /\ wt.at - wt.had.mfaVerifiedAt = 299 * 1000) => C6_Proceeded
    /\ (wt.had.mfaVerified /\ wt.at - wt.had.mfaVerifiedAt = 300 * 1000) => ~C6_Proceeded
    /\ (wt.had.mfaVerified /\ wt.at - wt.had.mfaVerifiedAt = 301 * 1000) => ~C6_Proceeded
    /\ (~wt.had.mfaVerified \/ wt.had.mfaVerifiedAt = 0) => ~C6_Proceeded

\* a request exactly 300 s after the step-up is turned away
C6_Witness ==
  /\ C6_GatedRequest
  /\ wt.had.mfaVerified
  /\ wt.at - wt.had.mfaVerifiedAt = 300 * 1000
  /\ ~C6_Proceeded

\* the last request produced the transfer form or a transfer confirmation
C7_Produced ==
  \E i \in 1..Len(wt.events) :
    wt.events[i] \in {"render:wire-transfer", "render:wire-transfer-confirm"}

\* C7: every wire-transfer operation, the processing of a submitted transfer
\* (POST) as well as the form (GET), is performed only for a logged-in session
\* with a fresh MFA marker; without one no form and no confirmation is produced.
C7_TransferNeedsFreshMfa ==
  C7_Produced => (wt.had.authenticated /\ C6_Fresh)

\* how often an event occurs in the trace of the last request
C8_Count(e) == Cardinality({i \in 1..Len(wt.events) : wt.events[i] = e})

\* C8: when the MFA marker is stale or absent the gate never invokes the
\* protected handler: it records the requested destination in the session under
\* mfaReturnUrl and then issues exactly one redirect, to /stepup-mfa; for each
\* request exactly one of proceed and redirect happens.
C8_StaleRedirectsOnce ==
  C6_GatedRequest =>
    /\ C8_Count("ensureMfaVerified:next") + C8_Count("redirect:/stepup-mfa") = 1
    /\ ~C6_Fresh =>
         /\ ~C6_Proceeded /\ ~C7_Produced
         /\ wt.events = <<"ensureLoggedIn:next", "session.mfaReturnUrl=",
                          "redirect:/stepup-mfa">>
         /\ wt.after.mfaReturnUrl = wt.path

\* a stale marker, not an absent one, sent the request to the step-up flow
C8_Witness ==
  /\ C6_GatedRequest
  /\ wt.had.mfaVerified /\ ~C6_Fresh
  /\ wt.had.mfaReturnUrl = Absent
  /\ wt.after.mfaReturnUrl = "/wire-transfer"

\* C9: passing the gate never extends the freshness window. The gate writes
\* neither mfaVerified nor mfaVerifiedAt, so the timestamp of the session is
\* always the time of the last step-up, and every access at or after T+300 s is
\* stale however many accesses passed the gate inside the window.
C9_NoSlidingWindow ==
  /\ sess.mfaVerifiedAt = audit.acquiredAt
  /\ sess.mfaVerified = (audit.acquiredAt # 0)
  /\ wt.method # "none" =>
       /\ wt.after.mfaVerified = wt.had.mfaVerified
       /\ wt.after.mfaVerifiedAt = wt.had.mfaVerifiedAt
  /\ (C6_GatedRequest /\ wt.had.mfaVerified
        /\ wt.at - wt.had.mfaVerifiedAt >= 300 * 1000) => ~C6_Proceeded

\* two accesses passed inside the window, and the next one after it is stale
C9_Witness ==
  /\ audit.passes = 2
  /\ C6_GatedRequest
  /\ wt.had.mfaVerifiedAt = audit.acquiredAt
  /\ wt.at - audit.acquiredAt >= 300 * 1000
  /\ ~C6_Proceeded

-----------------------------------------------------------------------------
(* The token validator on its own: validateLogoutToken over a range of tokens *)

\* the tokens handed to the validator; exp and nbf are in seconds and lie around
\* the 1000 s the clock shows, 0 standing for a claim the token does not carry
TokenInputs ==
  {t \in [wellFormed : BOOLEAN,
          typ : {"global-token-revocation+jwt", "JWT"},
          kid : {"k1", "kX"},
          alg : {"RS256", "RS512", "HS256"},
          signedBy : {"key1", "key2", "attacker"},
          iss : {expectedIssuer, "https://evil.example"},
          aud : {{revocationEndpoint}, {revocationEndpoint, "other"}, {"other"}},
          hasExp : BOOLEAN, exp : {0, 969, 970, 971, 1300},
          hasNbf : BOOLEAN, nbf : {0, 1000, 1030, 1031}] :
     /\ t.hasExp <=> t.exp # 0
     /\ t.hasNbf <=> t.nbf # 0}

\* Date.now() at the validation: on a second, and late in it
TokenNows == {NowStart, NowStart + 999}

InitToken ==
  /\ userSessions = EmptyMap
  /\ sessions = EmptyMap
  /\ rev = NoRequest
  /\ lastOp = NoDirectoryCall
  /\ call = NoCall
  /\ now \in TokenNows
  /\ sess = NoSession
  /\ wt = NoWireRequest
  /\ audit = NoAudit
  /\ tok \in [jwt : TokenInputs, clientReady : BOOLEAN]
  /\ vres = NotValidated

\* await validateLogoutToken(token, revocationEndpoint, expectedIssuer)
ValidateToken ==
  /\ vres = NotValidated
  /\ vres' = validateLogoutToken(tok.jwt, revocationEndpoint, expectedIssuer,
                                 tok.clientReady, now)
  /\ UNCHANGED <<userSessions, sessions, rev, lastOp, call, now, sess, wt, audit, tok>>

TokenNext == ValidateToken

SpecToken == InitToken /\ [][TokenNext]_vars

-----------------------------------------------------------------------------
(* Claims about the token validator *)

\* the validator has run on tok
C10_Validated == vres # NotValidated

\* a signing key is resolved for the key id of the token
C10_KeyResolved == tok.clientReady /\ tok.jwt.kid \in {"k1", "k2"}

\* the signature verifies under an approved RSA algorithm with the resolved key
C10_SignatureVerifies ==
  /\ tok.jwt.alg \in {"RS256", "RS384", "RS512"}
  /\ tok.jwt.signedBy = (IF tok.jwt.kid = "k1" THEN "key1" ELSE "key2")

\* the current time, in seconds, is within exp and nbf with 30 s of tolerance;
\* a claim the token does not carry sets no limit
C10_WithinTime ==
  LET seconds == now \div 1000
  IN  /\ tok.jwt.hasExp => seconds < tok.jwt.exp + 30
      /\ tok.jwt.hasNbf => tok.jwt.nbf <= seconds + 30

\* C10: validateLogoutToken returns the payload if and only if the token
\* parses, a signing key is resolved for its key id, the signature verifies
\* under an approved RSA algorithm, the issuer equals expectedIssuer, the
\* audience contains expectedAudience and the time is within exp and nbf with
\* 30 s of tolerance; a token with an unrecognized key id, a different issuer, or
\* an exp more than 30 s in the past is rejected.
C10_ValidatesIff ==
  C10_Validated =>
    /\ vres.ok <=> /\ tok.jwt.wellFormed
                   /\ C10_KeyResolved
                   /\ C10_SignatureVerifies
                   /\ tok.jwt.iss = expectedIssuer
                   /\ revocationEndpoint \in tok.jwt.aud
                   /\ C10_WithinTime
    /\ tok.jwt.kid \notin {"k1", "k2"} => ~vres.ok
    /\ tok.jwt.iss # expectedIssuer => ~vres.ok
    /\ (tok.jwt.hasExp /\ (now \div 1000) - tok.jwt.exp > 30) => ~vres.ok

\* a token whose exp lies 29 s in the past is accepted
C10_Witness ==
  /\ C10_Validated
  /\ vres.ok
  /\ tok.jwt.hasExp /\ (now \div 1000) - tok.jwt.exp = 29
  /\ tok.jwt.aud = {revocationEndpoint, "other"}

\* the token of tok under the expected header type
C26_Retyped == [tok.jwt EXCEPT !.typ = "global-token-revocation+jwt"]

\* C26: the header type takes no part in the validation. Whatever the type of
\* the token, the validator's result is the result for the same token under the
\* expected type, so the response built from it is the same; and a token of
\* another type that passes key resolution, signature, issuer, audience and time
\* checks is accepted.
C26_TypIgnored ==
  C10_Validated =>
    /\ vres = validateLogoutToken(C26_Retyped, revocationEndpoint, expectedIssuer,
                                  tok.clientReady, now)
    /\ (/\ tok.jwt.wellFormed
        /\ C10_KeyResolved
        /\ C10_SignatureVerifies
        /\ tok.jwt.iss = expectedIssuer
        /\ revocationEndpoint \in tok.jwt.aud
        /\ C10_WithinTime) => vres.ok

\* a token of type JWT was accepted
C26_Witness ==
  /\ C10_Validated
  /\ vres.ok
  /\ tok.jwt.typ = "JWT"

====
